---- MODULE Spec2Model ----
(***************************************************************************)
(* Attendance tracker (server/storage.ts + server/routes.ts, both held in  *)
(* src/unnamed/part_000).  The model covers the two storage variants       *)
(* (MemStorage, MongoStorage), the startup seed, the check-in, check-out   *)
(* and register routes and the read-only routes.  Every `await` on a       *)
(* storage call of a writing handler is a suspension point: other handlers *)
(* may run between the call and the continuation.  A check-in or check-out *)
(* therefore takes two steps (to the find it awaits, then to its           *)
(* response), a registration three.  A read-only route is one step.        *)
(*                                                                         *)
(* Spec is the server receiving check-ins and check-outs, SpecRegister the *)
(* server receiving registrations, SpecReports the server started on a     *)
(* Sunday and receiving check-ins, check-outs and the read-only requests,  *)
(* SpecWrites the server receiving the three writing routes together, and  *)
(* SpecNight the server started in the night to that Sunday (server-local  *)
(* time), with every seeded user as a caller.                              *)
(*                                                                         *)
(* Time is in milliseconds, as Date.getTime() gives it.  Day 0 of the      *)
(* model's calendar is Sunday 2026-10-25, so that clock values fit the     *)
(* integers of the model checker.  A date string "YYYY-MM-DD" is modelled  *)
(* by its day number (string order = numeric order).  totalHours is kept   *)
(* in tenths of an hour (40 = 4.0 h).                                      *)
(***************************************************************************)
EXTENDS Integers, Sequences, FiniteSets, TLC

VARIABLES variant, tz, phase, clock, users, attendance, reqs, issued, sent

vars == <<variant, tz, phase, clock, users, attendance, reqs, issued, sent>>

(*************************** bounds of the model ***************************)
\* number of request handlers that may be in flight together
MaxReq == 2
\* number of requests the server receives in one behaviour
MaxIssued == 3
\* days the seed loop goes back (the code's loop bound is 14)
SeedDays == 2

(**************************** program constants ****************************)
HourMs == 1000 * 60 * 60
MinuteMs == 1000 * 60
DayMs == 24 * HourMs
LateHour == 9
LateMinute == 15
HalfDayHours == 4

\* JavaScript null / undefined, and a present value
Null == <<>>
Some(v) == <<v>>
Val(o) == o[1]

(****************************** Date methods *******************************)
\* date.toISOString().split("T")[0]: the UTC calendar date
getStartOfDay(t) == t \div DayMs

\* Date.getHours(), Date.getMinutes(), Date.getDay(): server-local time
LocalMs(t) == t + tz
getHours(t) == (LocalMs(t) % DayMs) \div HourMs
getMinutes(t) == (LocalMs(t) % HourMs) \div MinuteMs
\* day 0 of the model's calendar is a Sunday
getDay(t) == (LocalMs(t) \div DayMs) % 7

\* Math.round(n / d) for d > 0: the nearest integer, a tie going up
MathRound(n, d) == (2 * n + d) \div (2 * d)

(************************ the clock of the behaviour ***********************)
\* the day the server starts: Tuesday 2026-11-03 (week 1, day 2)
StartDay == 1 * 7 + 2
\* server-local times of day at which something happens
At(h, m, s, ms) == h * HourMs + m * MinuteMs + s * 1000 + ms
LocalMarks ==
    << At(9, 15, 1, 0),      \* the server starts
       At(9, 16, 0, 0),
       At(13, 12, 1, 0),
       At(13, 16, 0, 0) >>
\* server time zones (offset of local time from UTC)
TzOffsets == {5 * HourMs + 30 * MinuteMs}
Instant(i) == StartDay * DayMs + LocalMarks[i] - tz
Instants == { Instant(i) : i \in 1..Len(LocalMarks) }

(********************************* users ***********************************)
\* seedData's createUser calls, in order (the first two of the five
\* employees are modelled)
SeedUsers ==
    << [id |-> 1, name |-> "Sarah Wilson", email |-> "manager@example.com",
        role |-> "manager", employeeId |-> "MGR001", department |-> "HR"],
       [id |-> 2, name |-> "John Smith", email |-> "employee1@example.com",
        role |-> "employee", employeeId |-> "EMP001", department |-> "Engineering"],
       [id |-> 3, name |-> "Emily Johnson", email |-> "employee2@example.com",
        role |-> "employee", employeeId |-> "EMP002", department |-> "Sales"] >>

getAllEmployees(us) == SelectSeq(us, LAMBDA u : u.role = "employee")

(************************** the attendance store ***************************)
\* indexes of the records matching (userId, date), in insertion order
Matching(store, userId, date) ==
    { i \in 1..Len(store) : store[i].userId = userId /\ store[i].date = date }

Min(S) == CHOOSE x \in S : \A y \in S : x <= y

\* Array.find / findOne: the first match, or undefined
getAttendanceByUserAndDate(store, userId, date) ==
    IF Matching(store, userId, date) = {}
    THEN Null
    ELSE Some(store[Min(Matching(store, userId, date))])

\* the record createAttendance builds: id = randomUUID() is modelled by the
\* insertion number, which is fresh because nothing is ever deleted
NewAttendance(store, ins, now) ==
    [id |-> Len(store) + 1,
     userId |-> ins.userId,
     date |-> ins.date,
     checkInTime |-> ins.checkInTime,
     checkOutTime |-> ins.checkOutTime,
     status |-> ins.status,
     totalHours |-> ins.totalHours,
     createdAt |-> now]

\* MemStorage.createAttendance: Map.set under a fresh id, no key check
MemCreateAttendance(store, ins, now) ==
    [ok |-> TRUE, store |-> Append(store, NewAttendance(store, ins, now)),
     doc |-> Some(NewAttendance(store, ins, now))]

\* a save() that stores the document and then reports the duplicate key
MongoCreateAttendancePartial(store, ins, now) ==
    IF Matching(store, ins.userId, ins.date) # {}
    THEN [ok |-> FALSE, store |-> Append(store, NewAttendance(store, ins, now)),
          doc |-> Null]
    ELSE [ok |-> TRUE, store |-> Append(store, NewAttendance(store, ins, now)),
          doc |-> Some(NewAttendance(store, ins, now))]

\* MongoStorage.createAttendance: save() under the unique index
\* { userId: 1, date: 1 }; a duplicate key makes save() throw E11000
MongoCreateAttendance(store, ins, now) ==
    IF Matching(store, ins.userId, ins.date) # {}
    THEN [ok |-> FALSE, store |-> store, doc |-> Null]
    ELSE [ok |-> TRUE, store |-> Append(store, NewAttendance(store, ins, now)),
          doc |-> Some(NewAttendance(store, ins, now))]

createAttendance(v, store, ins, now) ==
    IF v = "mongo" THEN MongoCreateAttendance(store, ins, now)
    ELSE MemCreateAttendance(store, ins, now)

\* a merge that also moves checkInTime
MergeMovesCheckIn(existing, updates) ==
    [existing EXCEPT !.checkInTime = updates.checkOutTime,
                     !.checkOutTime = updates.checkOutTime,
                     !.totalHours = updates.totalHours,
                     !.status = updates.status]

\* a merge that drops checkOutTime from the updates
MergeDropsCheckOut(existing, updates) ==
    [existing EXCEPT !.totalHours = updates.totalHours,
                     !.status = updates.status]

\* { ...existing, ...updates } / findOneAndUpdate({ id }, updates): check-out
\* passes exactly checkOutTime, totalHours and status
Merge(existing, updates) ==
    [existing EXCEPT !.checkOutTime = updates.checkOutTime,
                     !.totalHours = updates.totalHours,
                     !.status = updates.status]

updateAttendance(store, id, updates) ==
    IF id \in 1..Len(store)
    THEN [store |-> [store EXCEPT ![id] = Merge(store[id], updates)],
          doc |-> Some(Merge(store[id], updates))]
    ELSE [store |-> store, doc |-> Null]

(***************************** the startup seed ****************************)
\* what Math.random() decides for one (day, employee) of the seed loop:
\* skip (rand < 0.1), or a check-in hour and minute and the time worked
\* (workedHours = 4 + Math.random() * 5, so 4 h <= worked < 9 h)
SeedDraws ==
    << [skip |-> TRUE, hour |-> 8, minute |-> 0, worked |-> 4 * HourMs],
       [skip |-> FALSE, hour |-> 8, minute |-> 30, worked |-> 4 * HourMs],
       [skip |-> FALSE, hour |-> 9, minute |-> 16, worked |-> 8 * HourMs + 57 * MinuteMs] >>
\* the sequences of draws the seed is run with: pair k of the loops gets
\* draw k + j (cyclically), for each shift j
SeedTapes(n) ==
    { [k \in 1..n |-> SeedDraws[((k + j) % Len(SeedDraws)) + 1]] : j \in 1..Len(SeedDraws) }

\* checkIn.setHours(h, m, 0, 0) on a copy of date: local midnight + h:m
SetHours(t, h, m) == (LocalMs(t) \div DayMs) * DayMs + At(h, m, 0, 0) - tz

SeedStatus(shape) ==
    IF shape.hour > LateHour \/ (shape.hour = LateHour /\ shape.minute > LateMinute)
    THEN IF shape.worked < HalfDayHours * HourMs THEN "half-day" ELSE "late"
    ELSE IF shape.worked < HalfDayHours * HourMs THEN "half-day" ELSE "present"

SeedRecord(emp, date, shape) ==
    [userId |-> emp.id,
     date |-> getStartOfDay(date),
     checkInTime |-> Some(SetHours(date, shape.hour, shape.minute)),
     checkOutTime |-> Some(SetHours(date, shape.hour, shape.minute) + shape.worked),
     status |-> SeedStatus(shape),
     totalHours |-> Some(MathRound(shape.worked * 10, HourMs))]

\* the pairs (i, employee) of the two nested seed loops, in loop order
SeedPairs(emps) ==
    [ k \in 1..(SeedDays * Len(emps)) |->
        << ((k - 1) \div Len(emps)) + 1, emps[((k - 1) % Len(emps)) + 1] >> ]

\* the seed loops from pair k on; a duplicate key thrown by save() is caught
\* by seedData and ends the seeding
RECURSIVE SeedLoop(_, _, _, _, _, _)
SeedLoop(v, store, pairs, k, draw, now) ==
    IF k > Len(pairs) THEN store
    ELSE LET i == pairs[k][1]
             emp == pairs[k][2]
             date == now - i * DayMs
             weekend == getDay(date) = 0 \/ getDay(date) = 6
         IN  IF weekend \/ draw[k].skip
             THEN SeedLoop(v, store, pairs, k + 1, draw, now)
             ELSE LET cr == createAttendance(v, store, SeedRecord(emp, date, draw[k]), now)
                  IN  IF cr.ok THEN SeedLoop(v, cr.store, pairs, k + 1, draw, now)
                      ELSE store

(******************************** requests *********************************)
NoRes == [code |-> 0, message |-> ""]
\* a handler slot: the route, the handler's position and its locals
IdleReq ==
    [kind |-> "none", pc |-> "idle", userId |-> 0, today |-> 0, now |-> 0,
     found |-> Null]
\* the last response sent, with the error the handler's catch logged
NoSent ==
    [kind |-> "none", userId |-> 0, today |-> 0, res |-> NoRes, body |-> Null,
     err |-> "none"]

\* the response of handler q
Respond(q, res, body, err) ==
    [kind |-> q.kind, userId |-> q.userId, today |-> q.today, res |-> res,
     body |-> body, err |-> err]

\* ids a verified token may carry: the manager and the first employee
Callers == { SeedUsers[i].id : i \in 1..2 }

Init ==
    /\ variant \in {"mem", "mongo"}
    /\ tz \in TzOffsets
    /\ phase = "seeding"
    /\ clock = Instant(1)
    /\ users = << >>
    /\ attendance = << >>
    /\ reqs = [r \in 1..MaxReq |-> IdleReq]
    /\ issued = 0
    /\ sent = NoSent

\* init(): seedData() on the fresh store; the routes are registered after it
SeedData ==
    /\ phase = "seeding"
    /\ phase' = "ready"
    /\ IF \E i \in 1..Len(users) : users[i].email = "manager@example.com"
       THEN UNCHANGED <<users, attendance>>
       ELSE /\ users' = users \o SeedUsers
            /\ \E draw \in SeedTapes(SeedDays * Len(getAllEmployees(SeedUsers))) :
                 attendance' = SeedLoop(variant, attendance,
                                        SeedPairs(getAllEmployees(SeedUsers)), 1, draw, clock)
    /\ UNCHANGED <<variant, tz, clock, reqs, issued, sent>>

(*************************** POST /attendance/checkin **********************)
\* hour > 9 || (hour === 9 && minute > 15) ? "late" : "present"
CheckInStatus(now) ==
    IF getHours(now) > LateHour
       \/ (getHours(now) = LateHour /\ getMinutes(now) > LateMinute)
    THEN "late" ELSE "present"

\* a check-in route without its existence check
CheckinExistingIgnored(found) == FALSE

\* if (existing)
CheckinExisting(found) == found # Null

\* the argument of storage.createAttendance in the check-in route
CheckinInsert(q) ==
    [userId |-> q.userId,
     date |-> q.today,
     checkInTime |-> Some(q.now),
     checkOutTime |-> Null,
     status |-> CheckInStatus(q.now),
     totalHours |-> Null]

\* the handler from the continuation of its first await to its response:
\* the new store and the response
CheckinContinue(v, store, q, clk) ==
    IF CheckinExisting(q.found)
    THEN [store |-> store,
          sent |-> Respond(q, [code |-> 400, message |-> "Already checked in today"],
                           Null, "none")]
    ELSE LET cr == createAttendance(v, store, CheckinInsert(q), clk)
         IN  IF cr.ok
             THEN [store |-> cr.store,
                   sent |-> Respond(q, [code |-> 201, message |-> ""], cr.doc, "none")]
             ELSE \* save() threw; the catch answers 500
                  [store |-> cr.store,
                   sent |-> Respond(q, [code |-> 500, message |-> "Check-in failed"],
                                    Null, "E11000")]

\* a request arrives at an instant not before the last one and takes the
\* first free handler slot
CanStart(r) ==
    /\ phase = "ready"
    /\ issued < MaxIssued
    /\ reqs[r].pc = "idle"
    /\ \A s \in 1..MaxReq : s < r => reqs[s].pc # "idle"

\* the handler up to and including the find it awaits first (MemStorage's
\* find runs within the call; MongoStorage's findOne is taken at the same
\* instant); the handler then waits to be continued
Started(kind, u, t) ==
    [kind |-> kind,
     userId |-> u,
     today |-> getStartOfDay(t),
     now |-> t,
     pc |-> "resume",
     found |-> getAttendanceByUserAndDate(attendance, u, getStartOfDay(t))]

CheckinStart(r, u, t) ==
    /\ CanStart(r)
    /\ t >= clock
    /\ clock' = t
    /\ issued' = issued + 1
    /\ reqs' = [reqs EXCEPT ![r] = Started("checkin", u, t)]
    /\ UNCHANGED <<variant, tz, phase, users, attendance, sent>>

CheckinResume(r) ==
    /\ reqs[r].kind = "checkin" /\ reqs[r].pc = "resume"
    /\ LET out == CheckinContinue(variant, attendance, reqs[r], clock)
       IN  /\ attendance' = out.store
           /\ sent' = out.sent
    /\ reqs' = [reqs EXCEPT ![r] = IdleReq]
    /\ UNCHANGED <<variant, tz, phase, clock, users, issued>>

(*************************** POST /attendance/checkout *********************)
\* a check-out route without its existence check
CheckoutMissingIgnored(found) == FALSE

\* if (!attendance)
CheckoutMissing(found) == found = Null

\* a check-out route without its test of checkOutTime
CheckoutDoneIgnored(att) == FALSE

\* if (attendance.checkOutTime)
CheckoutDone(att) == att.checkOutTime # Null

\* (now.getTime() - checkInTime.getTime()), the numerator of totalHours
Elapsed(att, now) == now - Val(att.checkInTime)

\* totalHours truncated to one decimal instead of rounded
RoundedHoursFloor(elapsed) == (elapsed * 10) \div HourMs

\* Math.round(totalHours * 10) / 10, in tenths of an hour
RoundedHours(elapsed) == MathRound(elapsed * 10, HourMs)

\* a downgrade that leaves a late check-in late
CheckoutStatusKeepsLate(elapsed, status) ==
    IF elapsed < HalfDayHours * HourMs /\ status # "late" THEN "half-day" ELSE status

\* a downgrade decided on the rounded totalHours
CheckoutStatusRounded(elapsed, status) ==
    IF RoundedHours(elapsed) < HalfDayHours * 10 THEN "half-day" ELSE status

\* a downgrade that stores the inferred status
CheckoutStatusAbsent(elapsed, status) ==
    IF elapsed < HalfDayHours * HourMs THEN "absent" ELSE status

\* let status = attendance.status; if (totalHours < 4) status = "half-day"
CheckoutStatus(elapsed, status) ==
    IF elapsed < HalfDayHours * HourMs THEN "half-day" ELSE status

\* the argument of storage.updateAttendance in the check-out route
CheckoutUpdates(att, now) ==
    [checkOutTime |-> Some(now),
     totalHours |-> Some(RoundedHours(Elapsed(att, now))),
     status |-> CheckoutStatus(Elapsed(att, now), att.status)]

\* the handler from the continuation of its first await to its response
CheckoutContinue(store, q) ==
    IF CheckoutMissing(q.found)
    THEN [store |-> store,
          sent |-> Respond(q, [code |-> 400,
                               message |-> "No check-in record found for today"],
                           Null, "none")]
    ELSE IF q.found = Null
    THEN \* attendance.checkOutTime of undefined throws; the catch answers 500
         [store |-> store,
          sent |-> Respond(q, [code |-> 500, message |-> "Check-out failed"],
                           Null, "TypeError")]
    ELSE IF CheckoutDone(Val(q.found))
    THEN [store |-> store,
          sent |-> Respond(q, [code |-> 400, message |-> "Already checked out today"],
                           Null, "none")]
    ELSE LET up == updateAttendance(store, Val(q.found).id,
                                    CheckoutUpdates(Val(q.found), q.now))
         IN  [store |-> up.store,
              sent |-> Respond(q, [code |-> 200, message |-> ""], up.doc, "none")]

CheckoutStart(r, u, t) ==
    /\ CanStart(r)
    /\ t >= clock
    /\ clock' = t
    /\ issued' = issued + 1
    /\ reqs' = [reqs EXCEPT ![r] = Started("checkout", u, t)]
    /\ UNCHANGED <<variant, tz, phase, users, attendance, sent>>

CheckoutResume(r) ==
    /\ reqs[r].kind = "checkout" /\ reqs[r].pc = "resume"
    /\ LET out == CheckoutContinue(attendance, reqs[r])
       IN  /\ attendance' = out.store
           /\ sent' = out.sent
    /\ reqs' = [reqs EXCEPT ![r] = IdleReq]
    /\ UNCHANGED <<variant, tz, phase, clock, users, issued>>

(******************************* the calendar ******************************)
\* the months of the model's calendar, October and November 2026 ("2026-10",
\* "2026-11"), with the day numbers of their first and last day
Months == {10, 11}
FirstOfMonth(m) == IF m = 10 THEN 0 - 24 ELSE 1 * 7
LastOfMonth(m) == IF m = 10 THEN 1 * 7 - 1 ELSE 1 * 7 + 29
\* date.substring(0, 7) / date.startsWith(month)
MonthOf(d) == IF d < FirstOfMonth(11) THEN 10 ELSE 11
\* new Date(year, mon - 1, d).getDay() of a calendar day
Weekday(d) == d % 7
\* Date.getDate(): the server-local day of the month
getDate(t) ==
    (LocalMs(t) \div DayMs) - FirstOfMonth(MonthOf(LocalMs(t) \div DayMs)) + 1

getWorkingDaysInMonth(m) ==
    Cardinality({ d \in FirstOfMonth(m)..LastOfMonth(m) :
                    Weekday(d) # 0 /\ Weekday(d) # 6 })

\* the loop for (d = 1; d <= today.getDate(); d++) over the days of month m
WorkingDaysToDate(m, t) ==
    Cardinality({ d \in 1..getDate(t) :
                    /\ Weekday(FirstOfMonth(m) + d - 1) # 0
                    /\ Weekday(FirstOfMonth(m) + d - 1) # 6 })

(**************************** the store's queries **************************)
\* records.sort by date descending (a stable sort; Mongo's sort({ date: -1 })
\* is taken in insertion order among equal dates) of the records at indexes S
RECURSIVE SortByDateDesc(_, _)
SortByDateDesc(store, S) ==
    IF S = {} THEN << >>
    ELSE LET i == CHOOSE i \in S :
                    \A j \in S : \/ store[j].date < store[i].date
                                 \/ (store[j].date = store[i].date /\ i <= j)
         IN  << store[i] >> \o SortByDateDesc(store, S \ {i})

\* getAttendanceByUser(userId, month?) of both variants
getAttendanceByUser(store, userId, month) ==
    SortByDateDesc(store,
        { i \in 1..Len(store) :
            /\ store[i].userId = userId
            /\ month # Null => MonthOf(store[i].date) = Val(month) })

\* getAttendanceByDate(date) of both variants
getAttendanceByDate(store, date) ==
    SelectSeq(store, LAMBDA a : a.date = date)

\* the filters of getAllAttendance: each is undefined or a value
NoFilters == [employeeId |-> Null, date |-> Null, status |-> Null,
              from |-> Null, to |-> Null]

\* MemStorage.getAllAttendance: one Array.filter after the other
MemGetAllAttendance(store, f) ==
    SortByDateDesc(store,
        { i \in 1..Len(store) :
            /\ f.employeeId # Null => store[i].userId = Val(f.employeeId)
            /\ f.date # Null => store[i].date = Val(f.date)
            /\ f.status # Null => store[i].status = Val(f.status)
            /\ f.from # Null => store[i].date >= Val(f.from)
            /\ f.to # Null => store[i].date <= Val(f.to) })

\* MongoStorage.getAllAttendance: one query object; with from or to given,
\* query.date = {} replaces the equality on date set before it
MongoGetAllAttendance(store, f) ==
    SortByDateDesc(store,
        { i \in 1..Len(store) :
            /\ f.employeeId # Null => store[i].userId = Val(f.employeeId)
            /\ f.status # Null => store[i].status = Val(f.status)
            /\ IF f.from # Null \/ f.to # Null
               THEN /\ f.from # Null => store[i].date >= Val(f.from)
                    /\ f.to # Null => store[i].date <= Val(f.to)
               ELSE f.date # Null => store[i].date = Val(f.date) })

getAllAttendance(v, store, f) ==
    IF v = "mongo" THEN MongoGetAllAttendance(store, f)
    ELSE MemGetAllAttendance(store, f)

(*************************** POST /api/auth/register ***********************)
\* String.toLowerCase() on the e-mail addresses of the model
toLowerCase(s) == IF s = "New@Example.com" THEN "new@example.com" ELSE s

\* the request bodies the model sends; "" is a missing field
RegisterBodies ==
    { [name |-> "N", email |-> e, password |-> "pw", role |-> "employee",
       employeeId |-> x, department |-> "Sales"] :
          e \in {"new@example.com", "New@Example.com"}, x \in {"EMP900", "EMP901"} }
    \cup
    { [name |-> "N", email |-> "employee1@example.com", password |-> "pw",
       role |-> "employee", employeeId |-> "EMP902", department |-> "Sales"],
      [name |-> "N", email |-> "", password |-> "pw", role |-> "employee",
       employeeId |-> "EMP903", department |-> "Sales"],
      [name |-> "N", email |-> "boss@example.com", password |-> "pw",
       role |-> "admin", employeeId |-> "EMP904", department |-> "Sales"] }

\* MemStorage.getUserByEmail lowers both sides; MongoStorage.getUserByEmail
\* lowers the argument and compares with the stored (lowered) address
getUserByEmail(v, us, email) ==
    LET hit == { i \in 1..Len(us) :
                   IF v = "mongo" THEN us[i].email = toLowerCase(email)
                   ELSE toLowerCase(us[i].email) = toLowerCase(email) }
    IN  IF hit = {} THEN Null ELSE Some(us[Min(hit)])

getUserByEmployeeId(us, employeeId) ==
    LET hit == { i \in 1..Len(us) : us[i].employeeId = employeeId }
    IN  IF hit = {} THEN Null ELSE Some(us[Min(hit)])

\* the user createUser builds: id = randomUUID() is the insertion number
NewUser(us, ins, email) ==
    [id |-> Len(us) + 1, name |-> ins.name, email |-> email, role |-> ins.role,
     employeeId |-> ins.employeeId, department |-> ins.department]

\* MemStorage.createUser: Map.set under a fresh id, no key check
MemCreateUser(us, ins) ==
    [ok |-> TRUE, users |-> Append(us, NewUser(us, ins, ins.email)),
     doc |-> Some(NewUser(us, ins, ins.email))]

\* MongoStorage.createUser: the schema lowers email; save() under the unique
\* indexes on email and employeeId throws E11000 on a duplicate
MongoCreateUser(us, ins) ==
    IF \E i \in 1..Len(us) :
          us[i].email = toLowerCase(ins.email) \/ us[i].employeeId = ins.employeeId
    THEN [ok |-> FALSE, users |-> us, doc |-> Null]
    ELSE [ok |-> TRUE, users |-> Append(us, NewUser(us, ins, toLowerCase(ins.email))),
          doc |-> Some(NewUser(us, ins, toLowerCase(ins.email)))]

createUser(v, us, ins) ==
    IF v = "mongo" THEN MongoCreateUser(us, ins) ELSE MemCreateUser(us, ins)

\* the response of the register route
RegisterSent(code, message, body, err) ==
    [kind |-> "register", userId |-> 0, today |-> 0,
     res |-> [code |-> code, message |-> message], body |-> body, err |-> err]

\* the handler up to its first await: the validation of the body, then
\* storage.getUserByEmail
RegisterStart(r, b) ==
    /\ CanStart(r)
    /\ issued' = issued + 1
    /\ IF b.name = "" \/ b.email = "" \/ b.password = "" \/ b.role = ""
          \/ b.employeeId = "" \/ b.department = ""
       THEN /\ sent' = RegisterSent(400, "All fields are required", Null, "none")
            /\ UNCHANGED reqs
       ELSE IF b.role # "employee" /\ b.role # "manager"
       THEN /\ sent' = RegisterSent(400, "Role must be 'employee' or 'manager'",
                                    Null, "none")
            /\ UNCHANGED reqs
       ELSE /\ reqs' = [reqs EXCEPT ![r] =
                          [kind |-> "register", pc |-> "email", body |-> b,
                           found |-> getUserByEmail(variant, users, b.email)]]
            /\ UNCHANGED sent
    /\ UNCHANGED <<variant, tz, phase, clock, users, attendance>>

\* from the continuation of getUserByEmail to storage.getUserByEmployeeId
RegisterCheckEmployeeId(r) ==
    /\ reqs[r].kind = "register" /\ reqs[r].pc = "email"
    /\ IF reqs[r].found # Null
       THEN /\ sent' = RegisterSent(400, "Email already registered", Null, "none")
            /\ reqs' = [reqs EXCEPT ![r] = IdleReq]
       ELSE /\ reqs' = [reqs EXCEPT ![r] =
                          [kind |-> "register", pc |-> "employeeId",
                           body |-> reqs[r].body,
                           found |-> getUserByEmployeeId(users, reqs[r].body.employeeId)]]
            /\ UNCHANGED sent
    /\ UNCHANGED <<variant, tz, phase, clock, users, attendance, issued>>

\* from the continuation of getUserByEmployeeId to the response: createUser
\* (whose await of bcrypt.hash precedes the write) and the token
RegisterCreate(r) ==
    /\ reqs[r].kind = "register" /\ reqs[r].pc = "employeeId"
    /\ reqs' = [reqs EXCEPT ![r] = IdleReq]
    /\ IF reqs[r].found # Null
       THEN /\ sent' = RegisterSent(400, "Employee ID already exists", Null, "none")
            /\ UNCHANGED users
       ELSE LET cr == createUser(variant, users, reqs[r].body)
            IN  IF cr.ok
                THEN /\ users' = cr.users
                     /\ sent' = RegisterSent(201, "",
                                  Some([user |-> Val(cr.doc),
                                        token |-> [id |-> Val(cr.doc).id,
                                                   role |-> Val(cr.doc).role]]),
                                  "none")
                ELSE \* save() threw; the catch answers 500
                     /\ users' = cr.users
                     /\ sent' = RegisterSent(500, "Registration failed", Null, "E11000")
    /\ UNCHANGED <<variant, tz, phase, clock, attendance, issued>>

(***************************** read-only routes ****************************)
\* A read-only route writes nothing; it is modelled by one step that reads the
\* store at one instant and answers.  The model's users carry no password,
\* which is all that sanitizeUser removes from a user.

\* req.user.role: the role the verified token was issued with
TokenRole(u) == SeedUsers[u].role

Forbidden == [code |-> 403, message |-> "Access denied"]
Ok == [code |-> 200, message |-> ""]

\* a requireRole that lets every authenticated caller pass
requireRoleOpen(role, u) == TRUE

\* requireRole(role): next() is called iff req.user.role === role
requireRole(role, u) == TokenRole(u) = role

\* the answer of a read-only route, with the number of storage calls its
\* handler made
ReportSent(kind, u, res, body, calls) ==
    [kind |-> kind, userId |-> u, today |-> 0, res |-> res, body |-> body,
     err |-> "none", calls |-> calls]

\* a request for a read-only route is received
CanAsk == phase = "ready" /\ issued < MaxIssued

\* authMiddleware, requireRole("manager"), handler: the handler runs, and
\* calls the store, only if requireRole calls next()
ManagerOnly(kind, u, body, calls) ==
    /\ CanAsk
    /\ issued' = issued + 1
    /\ sent' = IF requireRole("manager", u)
               THEN ReportSent(kind, u, Ok, Some(body), calls)
               ELSE ReportSent(kind, u, Forbidden, Null, 0)
    /\ UNCHANGED <<variant, tz, phase, clock, users, attendance, reqs>>

RECURSIVE SubSeqAt(_, _)
\* the elements of seq at the indexes S, in the order of seq
SubSeqAt(seq, S) ==
    IF S = {} THEN << >>
    ELSE << seq[Min(S)] >> \o SubSeqAt(seq, S \ {Min(S)})

RECURSIVE SumHours(_)
\* if (r.totalHours) totalHours += r.totalHours, in tenths of an hour
SumHours(records) ==
    IF records = << >> THEN 0
    ELSE (IF Head(records).totalHours = Null THEN 0 ELSE Val(Head(records).totalHours))
         + SumHours(Tail(records))

Max(a, b) == IF a >= b THEN a ELSE b

\* employeeMap.get(r.userId): the employee with that id, or undefined
EmployeeOf(emps, userId) ==
    IF \E i \in 1..Len(emps) : emps[i].id = userId
    THEN Some(emps[Min({ i \in 1..Len(emps) : emps[i].id = userId })])
    ELSE Null

\* records.map((r) => ({ ...r, user: employeeMap.get(r.userId) }))
WithUsers(records, emps) ==
    [ k \in 1..Len(records) |->
        [record |-> records[k], user |-> EmployeeOf(emps, records[k].userId)] ]

(* GET /api/users/employees *)
UsersEmployees(u) ==
    /\ CanAsk
    /\ issued' = issued + 1
    /\ sent' = ReportSent("employees", u, Ok, Some(getAllEmployees(users)), 1)
    /\ UNCHANGED <<variant, tz, phase, clock, users, attendance, reqs>>

(* GET /api/attendance/my-summary *)
\* the body of the answer for the month of the query (or the current month)
\* at instant t
MySummaryOf(store, userId, monthQ, t) ==
    LET currentMonth == MonthOf(getStartOfDay(t))
        month == IF monthQ # Null THEN Val(monthQ) ELSE currentMonth
        records == getAttendanceByUser(store, userId, Some(month))
        present == Len(SelectSeq(records, LAMBDA r : r.status = "present"))
        late == Len(SelectSeq(records, LAMBDA r : r.status = "late"))
        halfDay == Len(SelectSeq(records, LAMBDA r : r.status = "half-day"))
        workingDays == getWorkingDaysInMonth(month)
        daysToCount == IF month = currentMonth
                       THEN WorkingDaysToDate(month, t) ELSE workingDays
    IN  [present |-> present,
         absent |-> Max(0, daysToCount - (present + late + halfDay)),
         late |-> late,
         halfDay |-> halfDay,
         totalHours |-> SumHours(records),
         workingDays |-> daysToCount]

MySummary(u, monthQ) ==
    /\ CanAsk
    /\ issued' = issued + 1
    /\ sent' = ReportSent("my-summary", u, Ok,
                          Some(MySummaryOf(attendance, u, monthQ, clock)), 1)
    /\ UNCHANGED <<variant, tz, phase, clock, users, attendance, reqs>>

(* GET /api/attendance/all *)
\* the filters the route passes on: "all" (the id 0 of the model) stands for
\* no filter
AllFilters(q) ==
    [employeeId |-> IF q.employeeId # Null /\ q.employeeId # Some(0)
                    THEN q.employeeId ELSE Null,
     date |-> q.date,
     status |-> IF q.status # Null /\ q.status # Some("all") THEN q.status ELSE Null,
     from |-> q.from,
     to |-> q.to]

AttendanceAll(u, q) ==
    ManagerOnly("all", u,
        WithUsers(getAllAttendance(variant, attendance, AllFilters(q)),
                  getAllEmployees(users)), 2)

(* GET /api/attendance/employee/:id *)
AttendanceEmployee(u, id, monthQ) ==
    ManagerOnly("employee", u, getAttendanceByUser(attendance, id, monthQ), 1)

(* GET /api/attendance/summary *)
OrgSummaryOf(us, store, monthQ, t) ==
    LET employees == getAllEmployees(us)
        month == IF monthQ # Null THEN Val(monthQ) ELSE MonthOf(getStartOfDay(t))
        Tally(st) ==
            Cardinality({ i \in 1..Len(store) :
                /\ \E k \in 1..Len(employees) : employees[k].id = store[i].userId
                /\ MonthOf(store[i].date) = month
                /\ store[i].status = st })
    IN  [totalEmployees |-> Len(employees),
         present |-> Tally("present"),
         late |-> Tally("late"),
         halfDay |-> Tally("half-day"),
         absent |-> 0]

AttendanceSummary(u, monthQ) ==
    ManagerOnly("summary", u, OrgSummaryOf(users, attendance, monthQ, clock),
                1 + Len(getAllEmployees(users)))

(* GET /api/attendance/today-status *)
AttendanceTodayStatus(u, dateQ) ==
    ManagerOnly("today-status", u,
        WithUsers(getAttendanceByDate(attendance,
                     IF dateQ # Null THEN Val(dateQ) ELSE getStartOfDay(clock)),
                  getAllEmployees(users)), 2)

(* GET /api/attendance/export *)
\* Date.toLocaleTimeString(): the server-local time of day to the second
toLocaleTimeString(t) == (LocalMs(t) % DayMs) \div 1000

\* one line of the CSV, as the cells joined by ","; an empty cell of a time
\* or of the hours is Null
ExportRow(r, emps) ==
    LET emp == EmployeeOf(emps, r.userId)
    IN  << IF emp # Null THEN Val(emp).employeeId ELSE "",
           IF emp # Null THEN Val(emp).name ELSE "",
           IF emp # Null THEN Val(emp).department ELSE "",
           r.date,
           IF r.checkInTime # Null
           THEN Some(toLocaleTimeString(Val(r.checkInTime))) ELSE Null,
           IF r.checkOutTime # Null
           THEN Some(toLocaleTimeString(Val(r.checkOutTime))) ELSE Null,
           r.status,
           r.totalHours >>

ExportOf(v, us, store, q) ==
    LET records == getAllAttendance(v, store,
                       [NoFilters EXCEPT
                          !.employeeId = IF q.employeeId # Null
                                            /\ q.employeeId # Some(0)
                                         THEN q.employeeId ELSE Null,
                          !.from = q.from,
                          !.to = q.to])
    IN  [header |-> "Employee ID,Name,Department,Date,Check In,Check Out,Status,Hours Worked",
         rows |-> [ k \in 1..Len(records) |-> ExportRow(records[k], getAllEmployees(us)) ]]

AttendanceExport(u, q) ==
    ManagerOnly("export", u, ExportOf(variant, users, attendance, q), 2)

(* GET /api/dashboard/manager *)
\* [...new Set(employees.map((e) => e.department))]: first occurrences
Departments(emps) ==
    SubSeqAt([ i \in 1..Len(emps) |-> emps[i].department ],
             { i \in 1..Len(emps) :
                 \A j \in 1..(i - 1) : emps[j].department # emps[i].department })

\* Math.round(percentage * 10) / 10 of presentCount / totalPossible * 100,
\* in tenths of a per cent
DepartmentPercentage(presentCount, totalPossible) ==
    IF totalPossible > 0 THEN MathRound(presentCount * 100 * 10, totalPossible) ELSE 0

\* one element of departmentWise
DepartmentRow(dept, emps, v, store, t) ==
    LET today == getStartOfDay(t)
        currentMonth == MonthOf(today)
        deptEmployees == SelectSeq(emps, LAMBDA e : e.department = dept)
        monthRecords == getAllAttendance(v, store,
                            [NoFilters EXCEPT !.from = Some(FirstOfMonth(currentMonth)),
                                              !.to = Some(today)])
        presentCount ==
            Len(SelectSeq(monthRecords,
                    LAMBDA r : /\ \E k \in 1..Len(deptEmployees) :
                                     deptEmployees[k].id = r.userId
                               /\ (r.status = "present" \/ r.status = "late")))
        daysToCount == WorkingDaysToDate(currentMonth, t)
    IN  [department |-> dept,
         present |-> presentCount,
         total |-> Len(deptEmployees),
         percentage |-> DepartmentPercentage(presentCount,
                                             Len(deptEmployees) * daysToCount)]

\* one element of weeklyTrend: the day i days before t
TrendRow(emps, store, t, i) ==
    LET dateStr == getStartOfDay(t - i * DayMs)
        dayRecords == getAttendanceByDate(store, dateStr)
    IN  [date |-> dateStr,
         present |-> Len(SelectSeq(dayRecords, LAMBDA r : r.status = "present")),
         late |-> Len(SelectSeq(dayRecords, LAMBDA r : r.status = "late")),
         absent |-> Len(emps) - Len(dayRecords)]

ManagerDashboardOf(us, v, store, t) ==
    LET today == getStartOfDay(t)
        employees == getAllEmployees(us)
        todayRecords == getAttendanceByDate(store, today)
        lateToday == SelectSeq(todayRecords, LAMBDA r : r.status = "late")
        absentToday ==
            SelectSeq(employees,
                      LAMBDA e : ~\E k \in 1..Len(todayRecords) :
                                     todayRecords[k].userId = e.id)
        lateKnown ==
            SelectSeq(lateToday, LAMBDA r : EmployeeOf(employees, r.userId) # Null)
        departments == Departments(employees)
    IN  [totalEmployees |-> Len(employees),
         today |-> [present |-> Len(SelectSeq(todayRecords,
                                    LAMBDA r : r.status \in {"present", "late", "half-day"})),
                    absent |-> Len(absentToday),
                    late |-> Len(lateToday)],
         lateToday |-> [ k \in 1..Len(lateKnown) |->
                           [user |-> Val(EmployeeOf(employees, lateKnown[k].userId)),
                            checkInTime |-> lateKnown[k].checkInTime] ],
         absentToday |-> absentToday,
         weeklyTrend |-> [ k \in 1..7 |-> TrendRow(employees, store, t, 7 - k) ],
         departmentWise |-> [ k \in 1..Len(departments) |->
                                DepartmentRow(departments[k], employees, v, store, t) ]]

DashboardManager(u) ==
    ManagerOnly("dashboard-manager", u,
                ManagerDashboardOf(users, variant, attendance, clock),
                2 + 7 + Len(Departments(getAllEmployees(users))))

(****************************** specification ******************************)
Next ==
    \/ SeedData
    \/ \E r \in 1..MaxReq, u \in Callers, t \in Instants : CheckinStart(r, u, t)
    \/ \E r \in 1..MaxReq : CheckinResume(r)
    \/ \E r \in 1..MaxReq, u \in Callers, t \in Instants : CheckoutStart(r, u, t)
    \/ \E r \in 1..MaxReq : CheckoutResume(r)

Spec == Init /\ [][Next]_vars

\* the server receiving registrations only: the other routes write no user
NextRegister ==
    \/ SeedData
    \/ \E r \in 1..MaxReq, b \in RegisterBodies : RegisterStart(r, b)
    \/ \E r \in 1..MaxReq : RegisterCheckEmployeeId(r)
    \/ \E r \in 1..MaxReq : RegisterCreate(r)

SpecRegister == Init /\ [][NextRegister]_vars

\* the server receiving every writing request: check-ins and check-outs at
\* the first and the last instant of the day, and registrations
WriteInstants == { Instant(1), Instant(Len(LocalMarks)) }
WriteBodies ==
    { b \in RegisterBodies : b.employeeId # "EMP901" /\ b.role = "employee" }

NextWrites ==
    \/ SeedData
    \/ \E r \in 1..MaxReq, u \in Callers, t \in WriteInstants : CheckinStart(r, u, t)
    \/ \E r \in 1..MaxReq : CheckinResume(r)
    \/ \E r \in 1..MaxReq, u \in Callers, t \in WriteInstants : CheckoutStart(r, u, t)
    \/ \E r \in 1..MaxReq : CheckoutResume(r)
    \/ \E r \in 1..MaxReq, b \in WriteBodies : RegisterStart(r, b)
    \/ \E r \in 1..MaxReq : RegisterCheckEmployeeId(r)
    \/ \E r \in 1..MaxReq : RegisterCreate(r)

SpecWrites == Init /\ [][NextWrites]_vars

\* the server started on Sunday 2026-11-01 and asked for reports: requests
\* arrive on that Sunday and on the Monday after it
ReportStartDay == 1 * 7
\* (days after the start, server-local time of day)
ReportMarks ==
    << << 0, At(9, 0, 0, 0) >>,      \* the server starts
       << 1, At(9, 16, 0, 0) >> >>
ReportInstant(i) ==
    (ReportStartDay + ReportMarks[i][1]) * DayMs + ReportMarks[i][2] - tz
ReportInstants == { ReportInstant(i) : i \in 1..Len(ReportMarks) }

\* the query strings the model sends (employeeId 0 is "all")
QueryMonths == {Null} \cup { Some(m) : m \in Months }
QueryDates == {Null, Some(ReportStartDay - 2), Some(ReportStartDay)}
AllQueries ==
    [employeeId : {Some(0), Some(SeedUsers[2].id)},
     date : {Null, Some(ReportStartDay)},
     status : {Null},
     from : {Null, Some(ReportStartDay - 2)},
     to : {Null, Some(ReportStartDay)}]
ExportQueries ==
    [employeeId : {Some(0), Some(SeedUsers[2].id)},
     date : {Null},
     status : {Null, Some("late")},
     from : {Null, Some(ReportStartDay - 2)},
     to : {Null}]

InitReports ==
    /\ variant \in {"mem", "mongo"}
    /\ tz \in TzOffsets
    /\ phase = "seeding"
    /\ clock = ReportInstant(1)
    /\ users = << >>
    /\ attendance = << >>
    /\ reqs = [r \in 1..MaxReq |-> IdleReq]
    /\ issued = 0
    /\ sent = NoSent

NextReports ==
    \/ SeedData
    \/ \E r \in 1..MaxReq, u \in Callers, t \in ReportInstants : CheckinStart(r, u, t)
    \/ \E r \in 1..MaxReq : CheckinResume(r)
    \/ \E r \in 1..MaxReq, u \in Callers, t \in ReportInstants : CheckoutStart(r, u, t)
    \/ \E r \in 1..MaxReq : CheckoutResume(r)
    \/ \E u \in Callers : UsersEmployees(u)
    \/ \E u \in Callers, m \in QueryMonths : MySummary(u, m)
    \/ \E u \in Callers, q \in AllQueries : AttendanceAll(u, q)
    \/ \E u \in Callers, e \in Callers, m \in QueryMonths : AttendanceEmployee(u, e, m)
    \/ \E u \in Callers, m \in QueryMonths : AttendanceSummary(u, m)
    \/ \E u \in Callers, d \in QueryDates : AttendanceTodayStatus(u, d)
    \/ \E u \in Callers, q \in ExportQueries : AttendanceExport(u, q)
    \/ \E u \in Callers : DashboardManager(u)

SpecReports == InitReports /\ [][NextReports]_vars

\* the server started in the night to Sunday 2026-11-01, before the UTC date
\* has followed the server-local date; every seeded user holds a token
\* (server-local times of day of that Sunday)
NightMarks == << At(2, 0, 0, 0), At(9, 0, 0, 0) >>
NightInstant(i) == (1 * 7) * DayMs + NightMarks[i] - tz
NightInstants == { NightInstant(i) : i \in 1..Len(NightMarks) }
AllCallers == { SeedUsers[i].id : i \in 1..Len(SeedUsers) }

InitNight ==
    /\ variant \in {"mem", "mongo"}
    /\ tz \in TzOffsets
    /\ phase = "seeding"
    /\ clock = NightInstant(1)
    /\ users = << >>
    /\ attendance = << >>
    /\ reqs = [r \in 1..MaxReq |-> IdleReq]
    /\ issued = 0
    /\ sent = NoSent

NextNight ==
    \/ SeedData
    \/ \E r \in 1..MaxReq, u \in AllCallers, t \in NightInstants : CheckinStart(r, u, t)
    \/ \E r \in 1..MaxReq : CheckinResume(r)
    \/ \E r \in 1..MaxReq, u \in AllCallers, t \in NightInstants : CheckoutStart(r, u, t)
    \/ \E r \in 1..MaxReq : CheckoutResume(r)
    \/ \E u \in AllCallers, m \in QueryMonths : MySummary(u, m)
    \/ \E u \in AllCallers : DashboardManager(u)

SpecNight == InitNight /\ [][NextNight]_vars

(******************************** properties *******************************)
AlreadyCheckedIn == [code |-> 400, message |-> "Already checked in today"]
NoCheckInFound == [code |-> 400, message |-> "No check-in record found for today"]

\* handler r takes its second step (continuation to response) in this step
Continues(r, kind) ==
    reqs[r].kind = kind /\ reqs[r].pc = "resume" /\ reqs'[r].pc = "idle"

\* handler r takes its first step in this step
Starts(r, kind) ==
    reqs[r].pc = "idle" /\ reqs'[r].pc = "resume" /\ reqs'[r].kind = kind

\* the find of a starting handler sees a record exactly when the store holds
\* one for the caller and today
StartSeesStore(r) ==
    (reqs'[r].found # Null)
        <=> (Matching(attendance, reqs'[r].userId, reqs'[r].today) # {})

\* C1: in every reachable state the store holds at most one attendance record
\* for each (userId, date) pair, under either store variant
C1_OneRecordPerUserAndDate ==
    \A i, j \in 1..Len(attendance) :
        (attendance[i].userId = attendance[j].userId
            /\ attendance[i].date = attendance[j].date) => i = j

\* C2: of the check-ins of one user on one date exactly one succeeds, creating
\* the only record of that (user, date), and every other one fails with
\* AlreadyCheckedIn: a check-in answers either 201 with the single record of
\* its key or 400 "Already checked in today"
C2_OneSuccessOthersAlreadyCheckedIn ==
    sent.kind = "checkin" =>
        \/ /\ sent.res.code = 201
           /\ Cardinality(Matching(attendance, sent.userId, sent.today)) = 1
        \/ sent.res = AlreadyCheckedIn

\* C3: a createAttendance call made while a record with the same
\* (userId, date) is stored fails with a duplicate-key error and adds no record
C3_CreateRejectsDuplicateKey ==
    [][\A r \in 1..MaxReq :
          (/\ Continues(r, "checkin")
           /\ ~CheckinExisting(reqs[r].found)
           /\ Matching(attendance, reqs[r].userId, reqs[r].today) # {})
          => (attendance' = attendance /\ sent'.err = "E11000")]_vars

\* C4: a check-in whose create was rejected with a duplicate-key error
\* answers AlreadyCheckedIn
C4_DuplicateKeyReportedAsAlreadyCheckedIn ==
    (sent.kind = "checkin" /\ sent.err = "E11000") => sent.res = AlreadyCheckedIn

\* C5: a check-in started when the caller already has a record for today sees
\* that record, answers AlreadyCheckedIn and leaves the store, and so every
\* field of the existing record, as it was
C5_SecondCheckinRejected ==
    [][\A r \in 1..MaxReq :
          /\ Starts(r, "checkin") => StartSeesStore(r)
          /\ (Continues(r, "checkin") /\ reqs[r].found # Null)
                => (/\ sent'.kind = "checkin"
                    /\ sent'.userId = reqs[r].userId
                    /\ sent'.res = AlreadyCheckedIn
                    /\ attendance' = attendance)]_vars

C5_Witness ==
    /\ sent.kind = "checkin"
    /\ sent.res = AlreadyCheckedIn
    /\ Matching(attendance, sent.userId, sent.today) # {}

\* C6: a record created by check-in has status "late" exactly when the local
\* time of day of the check-in is strictly after 09:15:00.000
C6_LateIffAfterQuarterPastNine ==
    \A i \in 1..Len(attendance) :
        attendance[i].checkOutTime = Null =>
            (attendance[i].status = "late"
                <=> LocalMs(Val(attendance[i].checkInTime)) % DayMs > At(9, 15, 0, 0))

\* C7: a successful check-out leaves status "half-day" when less than 4.0 hours
\* have passed since checkInTime, whatever the status set at check-in was, and
\* the status set at check-in otherwise
C7_HalfDayBelowFourHours ==
    [][\A r \in 1..MaxReq :
          (Continues(r, "checkout") /\ sent'.res.code = 200) =>
              LET att == Val(reqs[r].found)
                  elapsed == reqs[r].now - Val(att.checkInTime)
                  atCheckIn == CheckInStatus(Val(att.checkInTime))
                  result == IF elapsed < 4 * HourMs THEN "half-day" ELSE atCheckIn
              IN  /\ att.status = atCheckIn
                  /\ Val(sent'.body).status = result
                  /\ attendance'[att.id].status = result]_vars

C7_Witness ==
    /\ sent.kind = "checkout"
    /\ sent.res.code = 200
    /\ Val(sent.body).status = "half-day"
    /\ CheckInStatus(Val(Val(sent.body).checkInTime)) = "late"

\* the record a successful check-out has just stored and returned
CheckedOut == sent.kind = "checkout" /\ sent.res.code = 200
Stored == Val(sent.body)
StoredElapsed == Val(Stored.checkOutTime) - Val(Stored.checkInTime)

\* C8 as stated: after a successful check-out the stored record is "half-day"
\* if and only if its stored (rounded) totalHours is less than 4.0
C8_HalfDayIffRoundedBelowFour ==
    CheckedOut =>
        /\ Stored = attendance[Stored.id]
        /\ Stored.status = "half-day" <=> Val(Stored.totalHours) < 40

\* C8 amended: after a successful check-out the stored record is "half-day" if
\* and only if the unrounded elapsed time is less than 4.0 hours; a stored
\* totalHours below 4.0 means "half-day", and a "half-day" record has a stored
\* totalHours of at most 4.0
C8_HalfDayIffElapsedBelowFour ==
    CheckedOut =>
        /\ Stored = attendance[Stored.id]
        /\ Stored.status = "half-day" <=> StoredElapsed < 4 * HourMs
        /\ Val(Stored.totalHours) < 40 => Stored.status = "half-day"
        /\ Stored.status = "half-day" => Val(Stored.totalHours) <= 40

C8_Witness ==
    /\ CheckedOut
    /\ Stored.status = "half-day"
    /\ Val(Stored.totalHours) = 40

\* C9: the totalHours of every checked-out record is the elapsed time
\* checkOutTime - checkInTime in hours rounded to one decimal, a tie going up:
\* with T the stored tenths, T - 1/2 <= 10 * hours < T + 1/2
C9_TotalHoursRoundedHalfUp ==
    \A i \in 1..Len(attendance) :
        attendance[i].checkOutTime # Null =>
            LET e == Val(attendance[i].checkOutTime) - Val(attendance[i].checkInTime)
                T == Val(attendance[i].totalHours)
            IN  /\ (2 * T - 1) * HourMs <= 20 * e
                /\ 20 * e < (2 * T + 1) * HourMs

\* a check-out of today whose elapsed time lies exactly between two tenths
C9_Witness ==
    /\ CheckedOut
    /\ 20 * StoredElapsed = (2 * Val(Stored.totalHours) - 1) * HourMs

\* C10: a check-out started when the caller has no record for today sees
\* none, answers NoCheckInFound and changes nothing in the store
C10_CheckoutWithoutCheckin ==
    [][\A r \in 1..MaxReq :
          /\ Starts(r, "checkout") => StartSeesStore(r)
          /\ (Continues(r, "checkout") /\ reqs[r].found = Null)
                => (/\ sent'.kind = "checkout"
                    /\ sent'.userId = reqs[r].userId
                    /\ sent'.res = NoCheckInFound
                    /\ attendance' = attendance
                    /\ users' = users)]_vars

C10_Witness ==
    /\ sent.kind = "checkout"
    /\ sent.res = NoCheckInFound
    /\ Matching(attendance, sent.userId, sent.today) = {}

AlreadyCheckedOut == [code |-> 400, message |-> "Already checked out today"]

\* the find of a starting handler returns the stored record of the caller and
\* today as it is stored at that moment
StartReadsStored(r) ==
    reqs'[r].found # Null =>
        LET att == Val(reqs'[r].found)
        IN  /\ att.id \in 1..Len(attendance)
            /\ att = attendance[att.id]
            /\ att.userId = reqs'[r].userId
            /\ att.date = reqs'[r].today

\* C11: a check-out started when the caller's record for today already has
\* checkOutTime set reads that record, answers AlreadyCheckedOut and leaves the
\* store, and so the record's checkOutTime, totalHours and status, unchanged
C11_SecondCheckoutRejected ==
    [][\A r \in 1..MaxReq :
          /\ Starts(r, "checkout") => StartReadsStored(r)
          /\ (/\ Continues(r, "checkout")
              /\ reqs[r].found # Null
              /\ Val(reqs[r].found).checkOutTime # Null)
                => (/\ sent'.kind = "checkout"
                    /\ sent'.userId = reqs[r].userId
                    /\ sent'.res = AlreadyCheckedOut
                    /\ attendance' = attendance)]_vars

C11_Witness ==
    /\ sent.kind = "checkout"
    /\ sent.res = AlreadyCheckedOut
    /\ \E i \in Matching(attendance, sent.userId, sent.today) :
          attendance[i].checkOutTime # Null

\* C12: of the check-outs of one user on one date exactly one succeeds and
\* every other one fails with AlreadyCheckedOut: a check-out that continues
\* when the stored record of its user and date already has checkOutTime set
\* answers AlreadyCheckedOut and writes nothing
C12_OneCheckoutOthersAlreadyCheckedOut ==
    [][\A r \in 1..MaxReq :
          (/\ Continues(r, "checkout")
           /\ \E i \in Matching(attendance, reqs[r].userId, reqs[r].today) :
                 attendance[i].checkOutTime # Null)
          => (sent'.res = AlreadyCheckedOut /\ attendance' = attendance)]_vars

\* C13: no step removes a record or changes the key of one, and no step
\* changes any field of a record whose checkOutTime is set
C13_RecordsOnlyMoveForward ==
    [][/\ Len(attendance') >= Len(attendance)
       /\ \A i \in 1..Len(attendance) :
             IF i > Len(attendance') THEN FALSE
             ELSE /\ attendance'[i].id = attendance[i].id
                  /\ attendance'[i].userId = attendance[i].userId
                  /\ attendance'[i].date = attendance[i].date
                  /\ attendance[i].checkOutTime # Null
                        => attendance'[i] = attendance[i]]_vars

\* C14: every stored attendance record has status present, late or half-day;
\* none has status absent
C14_NoAbsentStored ==
    \A i \in 1..Len(attendance) :
        /\ attendance[i].status # "absent"
        /\ attendance[i].status \in {"present", "late", "half-day"}

\* records written by the seed, by a check-in and by a check-out are stored
C14_Witness ==
    /\ \E i \in 1..Len(attendance) : attendance[i].date < StartDay
    /\ \E i \in 1..Len(attendance) :
          attendance[i].date = StartDay /\ attendance[i].checkOutTime = Null
    /\ \E i \in 1..Len(attendance) :
          attendance[i].date = StartDay /\ attendance[i].status = "half-day"

\* C19: no two stored users share an e-mail address, compared without regard
\* to case, and no two share an employeeId
C19_UsersUnique ==
    \A i, j \in 1..Len(users) :
        i # j => /\ toLowerCase(users[i].email) # toLowerCase(users[j].email)
                 /\ users[i].employeeId # users[j].employeeId

\* C15: every monthly summary GetMySummary returns satisfies
\* present + late + halfDay + absent = workingDays
C15_SummaryAddsUp ==
    sent.kind = "my-summary" =>
        LET b == Val(sent.body)
        IN  b.present + b.late + b.halfDay + b.absent = b.workingDays

\* C16: every department's percentage in the manager dashboard lies in
\* [0, 100] (0..1000 tenths), and is 0 whenever the department's headcount
\* times the working days to date is 0
C16_DepartmentPercentageInRange ==
    /\ (sent.kind = "dashboard-manager" /\ sent.res = Ok) =>
          \A k \in 1..Len(Val(sent.body).departmentWise) :
              /\ Val(sent.body).departmentWise[k].percentage >= 0
              /\ Val(sent.body).departmentWise[k].percentage <= 100 * 10
    /\ phase = "ready" =>
          LET rows == ManagerDashboardOf(users, variant, attendance, clock).departmentWise
              days == WorkingDaysToDate(MonthOf(getStartOfDay(clock)), clock)
          IN  \A k \in 1..Len(rows) :
                  rows[k].total * days = 0 => rows[k].percentage = 0

ManagerOnlyKinds ==
    {"all", "employee", "summary", "today-status", "export", "dashboard-manager"}

\* C17: a request for a manager-only route by a caller whose role is not
\* manager is answered Forbidden (403) with no data, its handler making no
\* storage call, and nothing changes in the store or the handlers
C17_ManagerOnlyForbidden ==
    [][(/\ sent' # sent
        /\ sent'.kind \in ManagerOnlyKinds
        /\ TokenRole(sent'.userId) # "manager")
       => (/\ sent'.res = Forbidden
           /\ sent'.body = Null
           /\ sent'.calls = 0
           /\ UNCHANGED <<users, attendance, reqs>>)]_vars

C17_Witness ==
    /\ sent.kind = "export"
    /\ TokenRole(sent.userId) = "employee"
    /\ sent.res = Forbidden
    /\ attendance # << >>

\* C18: GET /api/users/employees answers a caller whose role is employee with
\* a rejection and no employee list
C18_EmployeesListManagerOnly ==
    (sent.kind = "employees" /\ TokenRole(sent.userId) = "employee")
        => (sent.res.code # 200 /\ sent.body = Null)

\* the records of the store that satisfy every supplied filter
Conjunctive(store, f) ==
    { i \in 1..Len(store) :
        /\ f.employeeId # Null => store[i].userId = Val(f.employeeId)
        /\ f.date # Null => store[i].date = Val(f.date)
        /\ f.status # Null => store[i].status = Val(f.status)
        /\ f.from # Null => store[i].date >= Val(f.from)
        /\ f.to # Null => store[i].date <= Val(f.to) }

\* the combinations of filters getAllAttendance is asked with
FilterCombinations ==
    [employeeId : {Null, Some(SeedUsers[2].id)},
     date : {Null, Some(ReportStartDay - 2), Some(ReportStartDay)},
     status : {Null, Some("late")},
     from : {Null, Some(ReportStartDay - 2)},
     to : {Null, Some(ReportStartDay)}]

\* C20: for every combination of the filters, getAllAttendance returns
\* exactly the records that satisfy every supplied filter, each once
C20_FiltersConjunctive ==
    \A f \in FilterCombinations :
        LET got == getAllAttendance(variant, attendance, f)
        IN  /\ { got[k].id : k \in 1..Len(got) } = Conjunctive(attendance, f)
            /\ Len(got) = Cardinality(Conjunctive(attendance, f))

\* C21: for every filter set, the export called with it emits exactly one
\* line, in the same order, for each record getAllAttendance returns for that
\* filter set, and no other line
C21_ExportMatchesGetAll ==
    phase = "ready" =>
        \A q \in FilterCombinations :
            LET all == getAllAttendance(variant, attendance, AllFilters(q))
                csv == ExportOf(variant, users, attendance, q)
            IN  csv.rows = [ k \in 1..Len(all) |->
                               ExportRow(all[k], getAllEmployees(users)) ]

\* a handler answers in this step: it leaves its slot, or it answers before
\* taking one
Responds ==
    \/ \E r \in 1..MaxReq : reqs[r].pc # "idle" /\ reqs'[r].pc = "idle"
    \/ issued' # issued /\ reqs' = reqs

\* C22: a Register, CheckIn or CheckOut that answers with an error leaves the
\* users and the records as they were, and a successful CheckOut stores
\* checkOutTime, totalHours and status in the one step of its update
C22_NoPartialEffect ==
    [][/\ (/\ Responds
           /\ sent'.kind \in {"register", "checkin", "checkout"}
           /\ sent'.res.code >= 400)
          => (users' = users /\ attendance' = attendance)
       /\ \A r \in 1..MaxReq :
             (Continues(r, "checkout") /\ sent'.res.code = 200) =>
                 LET id == Val(reqs[r].found).id
                 IN  /\ attendance[id].checkOutTime = Null
                        \/ attendance[id].totalHours # Null
                     /\ attendance'[id].checkOutTime = Some(reqs[r].now)
                     /\ attendance'[id].totalHours # Null
                     /\ attendance'[id] = Val(sent'.body)]_vars

\* a check-in whose save() was rejected has answered
C22_Witness ==
    /\ sent.kind = "checkin"
    /\ sent.res.code = 500
    /\ sent.err = "E11000"
    /\ Len(users) > Len(SeedUsers)

\* C23: a successful check-out changes only checkOutTime, totalHours and
\* status of the caller's record for today; the record's id, userId, date,
\* checkInTime and createdAt, every other record and the users stay as they are
C23_CheckoutFrame ==
    [][\A r \in 1..MaxReq :
          (Continues(r, "checkout") /\ sent'.res.code = 200) =>
              LET id == Val(reqs[r].found).id
              IN  /\ Len(attendance') = Len(attendance)
                  /\ attendance[id].userId = reqs[r].userId
                  /\ attendance[id].date = reqs[r].today
                  /\ \A i \in 1..Len(attendance) :
                        i # id => attendance'[i] = attendance[i]
                  /\ attendance'[id].id = attendance[id].id
                  /\ attendance'[id].userId = attendance[id].userId
                  /\ attendance'[id].date = attendance[id].date
                  /\ attendance'[id].checkInTime = attendance[id].checkInTime
                  /\ attendance'[id].createdAt = attendance[id].createdAt
                  /\ users' = users]_vars

\* a check-out has succeeded in a store that holds other records as well
C23_Witness ==
    /\ CheckedOut
    /\ Len(attendance) > 2
    /\ attendance[Stored.id].checkOutTime = Stored.checkOutTime
    /\ \E i \in 1..Len(attendance) :
          attendance[i].date = StartDay /\ attendance[i].checkOutTime = Null

\* C25: every stored record whose checkOutTime is null has totalHours null
\* and status present or late; so a totalHours or the status half-day is
\* found only on records whose checkOutTime is set
C25_OpenRecordsHaveNoHours ==
    \A i \in 1..Len(attendance) :
        /\ attendance[i].checkOutTime = Null =>
              /\ attendance[i].totalHours = Null
              /\ attendance[i].status \in {"present", "late"}
        /\ (attendance[i].totalHours # Null \/ attendance[i].status = "half-day")
              => attendance[i].checkOutTime # Null

\* an open record and a half-day record of today are stored
C25_Witness ==
    /\ \E i \in 1..Len(attendance) :
          /\ attendance[i].date = StartDay
          /\ attendance[i].checkOutTime = Null
          /\ attendance[i].status = "late"
    /\ \E i \in 1..Len(attendance) :
          /\ attendance[i].date = StartDay
          /\ attendance[i].checkOutTime # Null
          /\ attendance[i].status = "half-day"

\* C26: in the manager dashboard the records counted present today and the
\* employees counted absent today add up to the roster size, whoever checked
\* in (employee or manager)
C26_PresentPlusAbsentIsRoster ==
    (sent.kind = "dashboard-manager" /\ sent.res = Ok) =>
        Val(sent.body).today.present + Val(sent.body).today.absent
            = Val(sent.body).totalEmployees

\* the values the two store variants return are compared up to the generated
\* id
SameOutcome(a, b) ==
    /\ a.ok = b.ok
    /\ (a.ok /\ b.ok) => [Val(a.doc) EXCEPT !.id = 0] = [Val(b.doc) EXCEPT !.id = 0]

\* C28: MemStorage and MongoStorage answer every IStorage call alike: from
\* the same stored users and records, createUser, createAttendance and
\* getAllAttendance under any filters succeed or fail together and return
\* the same records (updateAttendance and getAttendanceByUserAndDate are one
\* definition for both variants)
C28_StorageVariantsEquivalent ==
    phase = "ready" =>
        /\ \A b \in RegisterBodies :
              SameOutcome(createUser("mem", users, b), createUser("mongo", users, b))
        /\ \A u \in Callers :
              LET ins == CheckinInsert(Started("checkin", u, clock))
              IN  SameOutcome(createAttendance("mem", attendance, ins, clock),
                              createAttendance("mongo", attendance, ins, clock))
        /\ \A f \in FilterCombinations :
              getAllAttendance("mem", attendance, f)
                  = getAllAttendance("mongo", attendance, f)

\* C29: a check-out of a user who has a record with checkOutTime null, made
\* at any time after the check-in and with no other request in progress,
\* succeeds and sets checkOutTime on such a record
C29_OpenRecordCanBeCompleted ==
    [][\A r \in 1..MaxReq :
          (/\ Continues(r, "checkout")
           /\ \A s \in 1..MaxReq : s # r => reqs[s].pc = "idle"
           /\ reqs[r].found
                = getAttendanceByUserAndDate(attendance, reqs[r].userId, reqs[r].today)
           /\ \E i \in 1..Len(attendance) :
                 /\ attendance[i].userId = reqs[r].userId
                 /\ attendance[i].checkOutTime = Null)
          => /\ sent'.res.code = 200
             /\ \E i \in 1..Len(attendance) :
                   /\ attendance[i].userId = reqs[r].userId
                   /\ attendance[i].checkOutTime = Null
                   /\ attendance'[i].checkOutTime = Some(reqs[r].now)]_vars

RECURSIVE SumAbsent(_, _, _, _)
\* the sum of the absent counts of the monthly summaries of the employees
\* emps[k..]
SumAbsent(emps, k, store, monthQ) ==
    IF k > Len(emps) THEN 0
    ELSE MySummaryOf(store, emps[k].id, monthQ, clock).absent
            + SumAbsent(emps, k + 1, store, monthQ)

\* C30: for every month the absent count of the organisation summary is the
\* sum of the absent counts of the employees' monthly summaries
C30_OrgAbsentIsSumOfEmployees ==
    phase = "ready" =>
        \A m \in QueryMonths :
            OrgSummaryOf(users, attendance, m, clock).absent
                = SumAbsent(getAllEmployees(users), 1, attendance, m)

\* Monday-to-Friday days among the calendar days from..to
WeekdaysIn(from, to) ==
    Cardinality({ d \in from..to : Weekday(d) # 0 /\ Weekday(d) # 6 })

\* the workingDays of a summary asked for month monthQ on calendar day today
WorkingDaysExpected(monthQ, today) ==
    LET month == IF monthQ # Null THEN Val(monthQ) ELSE MonthOf(today)
    IN  IF month = MonthOf(today)
        THEN WeekdaysIn(FirstOfMonth(month), today)
        ELSE WeekdaysIn(FirstOfMonth(month), LastOfMonth(month))

\* C24: the workingDays of a monthly summary is the number of Monday-to-Friday
\* days of the requested month, over the whole month when it is not the
\* current month and over the days 1..today when it is (today being the
\* server-local or the UTC calendar day)
C24_WorkingDaysOfSummary ==
    phase = "ready" =>
        \A u \in AllCallers, m \in QueryMonths :
            MySummaryOf(attendance, u, m, clock).workingDays
                \in { WorkingDaysExpected(m, LocalMs(clock) \div DayMs),
                      WorkingDaysExpected(m, getStartOfDay(clock)) }

\* C27: the weekly trend of the manager dashboard has 7 entries of ascending
\* dates ending today, and the absent count of each is between 0 and the
\* roster size
C27_WeeklyTrend ==
    phase = "ready" =>
        LET trend == ManagerDashboardOf(users, variant, attendance, clock).weeklyTrend
            roster == Len(getAllEmployees(users))
        IN  /\ Len(trend) = 7
            /\ \A k \in 1..(Len(trend) - 1) : trend[k].date < trend[k + 1].date
            /\ trend[Len(trend)].date = getStartOfDay(clock)
            /\ \A k \in 1..Len(trend) :
                  trend[k].absent >= 0 /\ trend[k].absent <= roster

====
